---------------------------- MODULE Spec2Model ----------------------------
(***************************************************************************)
(* Model of the remaining-time prediction pipeline of pm4pypred:           *)
(*   src/pm4pypred/algo/prediction/versions/keras_rnn.py                   *)
(*   src/pm4pypred/algo/prediction/versions/elasticnet.py                  *)
(*                                                                         *)
(* The library is a set of synchronous functions.  The state is the last   *)
(* call made (call), what it returned or raised (ret) and the model bundle *)
(* that train produced and test consumes (model).  A result is a record    *)
(* [ok |-> TRUE, val |-> v] or, for a raised Python exception,             *)
(* [ok |-> FALSE, exc |-> name].                                           *)
(*                                                                         *)
(* Timestamps are integer seconds; a datetime difference's total_seconds() *)
(* is the integer difference.  Floats are fixed-point integers scaled by   *)
(* Scale (see LnFix, ExpFix).                                              *)
(***************************************************************************)
EXTENDS Integers, Sequences, FiniteSets, TLC

VARIABLES call, ret, model

vars == <<call, ret, model>>

---------------------------------------------------------------------------
(* Bounds and input domains                                                *)

\* longest trace of an input log
MaxTraceLen == 3
\* largest max_len_trace parameter passed to the stand-alone functions
MaxLenParam == 5

\* xes.DEFAULT_NAME_KEY, xes.DEFAULT_TIMESTAMP_KEY and one optional attribute
NameKey == "concept:name"
TimestampKey == "time:timestamp"
ResourceKey == "org:resource"

\* An event is a mapping from attribute names to values.
Ev(name, ts) == (NameKey :> name) @@ (TimestampKey :> ts)
EvRes(name, ts, res) == Ev(name, ts) @@ (ResourceKey :> res)

EventPool == {Ev("a", 0), EvRes("b", 5, "x"), EvRes("a", 12, "x")}

SeqsUpTo(S, n) == UNION {[1..k -> S] : k \in 0..n}

\* traces of 0..MaxTraceLen events (the empty trace included)
Traces == SeqsUpTo(EventPool, MaxTraceLen)
NonEmptyTraces == Traces \ {<<>>}

\* logs of one or two traces
Logs == {<<t>> : t \in Traces} \cup {<<t, u>> : t \in Traces, u \in Traces}

LenParams == 0..MaxLenParam

\* longest trace given to test (longer than any trace train has seen)
MaxTestTraceLen == 4

\* the traces given to test, over two events of the pool, and the logs of one
\* or two of them
TestTraces == SeqsUpTo({Ev("a", 0), EvRes("b", 5, "x")}, MaxTestTraceLen)
TestLogs == {<<t>> : t \in TestTraces} \cup {<<t, u>> : t \in TestTraces, u \in TestTraces}

\* logs of non-empty traces
NonEmptyLogs ==
    {<<t>> : t \in NonEmptyTraces} \cup {<<t, u>> : t \in NonEmptyTraces, u \in NonEmptyTraces}

\* Feature-name orderings as the tabular representation builder names them: one
\* with descriptors of every family (the last names a value no event of the pool
\* carries), a short one, and none.
FeatureLists ==
    << <<"event:concept:name@a", "event:concept:name@b",
         "succession:concept:name@a#b", "succession:concept:name@b#a",
         "event:org:resource@x", "succession:org:resource@x#x",
         "event:time:timestamp@5", "event:concept:name@c">>,
       <<"event:concept:name@a", "succession:concept:name@a#b">>,
       <<>> >>

---------------------------------------------------------------------------
(* Results                                                                 *)

Ok(v) == [ok |-> TRUE, val |-> v]
Raise(e) == [ok |-> FALSE, exc |-> e]

Min(a, b) == IF a < b THEN a ELSE b
Max(a, b) == IF a > b THEN a ELSE b

Last(s) == s[Len(s)]

\* the first raised exception of a sequence of results, scanning in order
RECURSIVE FirstRaise(_, _)
FirstRaise(rs, i) ==
    IF i > Len(rs) THEN Ok(<<>>)
    ELSE IF ~rs[i].ok THEN rs[i] ELSE FirstRaise(rs, i + 1)

\* a loop "for x in xs: out.append(f(x))" whose body may raise: the values, or
\* the first exception
Collect(rs) ==
    IF FirstRaise(rs, 1).ok THEN Ok([i \in 1..Len(rs) |-> rs[i].val])
    ELSE FirstRaise(rs, 1)

---------------------------------------------------------------------------
(* Label Extractor: get_remaining_time_from_log, business_hours off        *)

\* a slip: the end timestamp read from the last event kept, not from trace[-1]
ComputedRemainingTime_LastKept(trace, max_len_trace) ==
    [i \in 1..Min(Len(trace), max_len_trace) |->
        trace[Min(Len(trace), max_len_trace)][TimestampKey] - trace[i][TimestampKey]]

\* a slip: the elapsed time since the first event instead of the remaining time
ComputedRemainingTime_Elapsed(trace, max_len_trace) ==
    [i \in 1..Min(Len(trace), max_len_trace) |->
        trace[i][TimestampKey] - trace[1][TimestampKey]]

\* lines 233-242: the values computed for the events kept
ComputedRemainingTime(trace, max_len_trace) ==
    [i \in 1..Min(Len(trace), max_len_trace) |->
        Last(trace)[TimestampKey] - trace[i][TimestampKey]]

\* lines 243-244: "while len(y) < max_len_trace: y.append(y[-1])"; y[-1] of an
\* empty list raises IndexError
PadWithLast(y, max_len_trace) ==
    IF Len(y) >= max_len_trace THEN Ok(y)
    ELSE IF Len(y) = 0 THEN Raise("IndexError")
    ELSE Ok([i \in 1..max_len_trace |-> IF i <= Len(y) THEN y[i] ELSE Last(y)])

\* one iteration of the loop over the traces of the log
TraceRemainingTime(trace, max_len_trace) ==
    PadWithLast(ComputedRemainingTime(trace, max_len_trace), max_len_trace)

\* keras_rnn.get_remaining_time_from_log
get_remaining_time_from_log(log, max_len_trace) ==
    Collect([i \in 1..Len(log) |-> TraceRemainingTime(log[i], max_len_trace)])

\* elasticnet.get_remaining_time_from_log (a textual copy of the above)
elasticnet_get_remaining_time_from_log(log, max_len_trace) ==
    Collect([i \in 1..Len(log) |->
        PadWithLast([k \in 1..Min(Len(log[i]), max_len_trace) |->
                        Last(log[i])[TimestampKey] - log[i][k][TimestampKey]],
                    max_len_trace)])

---------------------------------------------------------------------------
(* Sequence Tensor Builder: get_trace_rep_rnn, get_log_rep_rnn,            *)
(* get_X_from_log                                                          *)

\* str(attribute_value): a string is itself, a timestamp is printed
Str(attribute_name, attribute_value) ==
    IF attribute_name = TimestampKey THEN ToString(attribute_value)
    ELSE attribute_value

\* get_X_from_log lines 111-113: the dictionary of 0-based column indexes (a
\* name listed twice keeps its last index)
Dictionary(feature_names) ==
    [rep \in {feature_names[i] : i \in 1..Len(feature_names)} |->
        (CHOOSE i \in 1..Len(feature_names) :
            /\ feature_names[i] = rep
            /\ \A j \in (i + 1)..Len(feature_names) : feature_names[j] # rep) - 1]

\* len(dictionary_features)
DictSize(dictionary_features) == Cardinality(DOMAIN dictionary_features)

\* lines 39-41: the descriptors of the attributes of an event
EventReps(event) ==
    {"event:" \o a \o "@" \o Str(a, event[a]) : a \in DOMAIN event}

\* lines 46-51: the descriptors of the transitions to the next event
SuccessionReps(event, next_event) ==
    {"succession:" \o a \o "@" \o Str(a, event[a]) \o "#" \o Str(a, next_event[a]) :
        a \in DOMAIN event \cap DOMAIN next_event}

\* a slip: the last event kept is taken for the last event of the trace
RowReps_KeptLength(trace, index, max_len_trace) ==
    EventReps(trace[index]) \cup
        (IF index < Min(Len(trace), max_len_trace)
         THEN SuccessionReps(trace[index], trace[index + 1]) ELSE {})

\* lines 39-53: the descriptors looked up for the event at (1-based) index;
\* line 44, "index < len(trace) - 1" 0-based, is "index < Len(trace)" here
RowReps(trace, index, max_len_trace) ==
    EventReps(trace[index]) \cup
        (IF index < Len(trace)
         THEN SuccessionReps(trace[index], trace[index + 1]) ELSE {})

\* lines 38, 42-43, 52-53: ev_vector, 1 at the index of every descriptor found
EvVector(reps, dictionary_features) ==
    [c \in 1..DictSize(dictionary_features) |->
        IF \E rep \in reps \cap DOMAIN dictionary_features :
              dictionary_features[rep] = c - 1
        THEN 1 ELSE 0]

\* lines 35-59: X before the transposition, one row per timestep; the padding
\* loop reads X[-1], IndexError on an empty X
TraceRows(trace, dictionary_features, max_len_trace) ==
    LET kept == Min(Len(trace), max_len_trace)
        X == [i \in 1..kept |->
                EvVector(RowReps(trace, i, max_len_trace), dictionary_features)]
    IN  IF Len(trace) >= max_len_trace THEN Ok(X)
        ELSE IF kept = 0 THEN Raise("IndexError")
        ELSE Ok([i \in 1..max_len_trace |->
                    IF i <= kept THEN X[i]
                    ELSE [c \in 1..Len(X[kept]) |-> 0]])

\* a slip: the transposition left out
Transposed_Not(X) == X

\* lines 60-61: np.transpose(np.asmatrix(X)).tolist(); np.asmatrix([]) has
\* shape (1, 0), and a matrix with a zero dimension lists as []
Transposed(X) ==
    IF Len(X) = 0 THEN <<>>
    ELSE [c \in 1..Len(X[1]) |-> [i \in 1..Len(X) |-> X[i][c]]]

get_trace_rep_rnn(trace, dictionary_features, max_len_trace) ==
    LET rows == TraceRows(trace, dictionary_features, max_len_trace)
    IN  IF rows.ok THEN Ok(Transposed(rows.val)) ELSE rows

\* the subsequence of the non-empty lists ("if rep: X.append(rep)")
RECURSIVE NonEmptyOnes(_)
NonEmptyOnes(reps) ==
    IF Len(reps) = 0 THEN <<>>
    ELSE IF Len(Head(reps)) > 0 THEN <<Head(reps)>> \o NonEmptyOnes(Tail(reps))
    ELSE NonEmptyOnes(Tail(reps))

get_log_rep_rnn(log, dictionary_features, max_len_trace) ==
    LET reps == Collect([i \in 1..Len(log) |->
                    get_trace_rep_rnn(log[i], dictionary_features, max_len_trace)])
    IN  IF reps.ok THEN Ok(NonEmptyOnes(reps.val)) ELSE reps

get_X_from_log(log, feature_names, max_len_trace) ==
    get_log_rep_rnn(log, Dictionary(feature_names), max_len_trace)

---------------------------------------------------------------------------
(* Prefix Expander and timestamp sort (pm4py collaborators)                *)

\* the first k events of a trace
Prefix(trace, k) == [i \in 1..k |-> trace[i]]

RECURSIVE Concat(_)
Concat(seqs) == IF Len(seqs) = 0 THEN <<>> ELSE Head(seqs) \o Concat(Tail(seqs))

\* get_log_with_log_prefixes: every trace of length n gives its n prefixes of
\* length 1..n, source order kept
ExtLog(log) ==
    Concat([i \in 1..Len(log) |-> [k \in 1..Len(log[i]) |-> Prefix(log[i], k)]])

\* number of expanded entries before source trace i
RECURSIVE Offset(_, _)
Offset(log, i) == IF i <= 1 THEN 0 ELSE Offset(log, i - 1) + Len(log[i - 1])

\* change_indexes: per source trace, the (0-based) expanded-log indexes of its
\* prefixes in prefix-length order
ChangeIndexes(log) ==
    [i \in 1..Len(log) |-> [k \in 1..Len(log[i]) |-> Offset(log, i) + k - 1]]

\* stable insertion of the keyed item x into a list sorted by key
RECURSIVE InsertByKey(_, _)
InsertByKey(sorted, x) ==
    IF Len(sorted) = 0 THEN <<x>>
    ELSE IF Last(sorted).key <= x.key THEN Append(sorted, x)
    ELSE Append(InsertByKey(SubSeq(sorted, 1, Len(sorted) - 1), x), Last(sorted))

\* stable sort of keyed items [key |-> k, item |-> x]
RECURSIVE SortByKey(_)
SortByKey(xs) ==
    IF Len(xs) = 0 THEN <<>>
    ELSE InsertByKey(SortByKey(SubSeq(xs, 1, Len(xs) - 1)), Last(xs))

Items(xs) == [i \in 1..Len(xs) |-> xs[i].item]

\* sort_timestamp_trace: the events of a trace by timestamp
sort_timestamp_trace(trace) ==
    Items(SortByKey([i \in 1..Len(trace) |->
        [key |-> trace[i][TimestampKey], item |-> trace[i]]]))

\* sorting.sort_timestamp on a log of non-empty traces: the events of each
\* trace by timestamp, then the traces by the timestamp of their first event
sort_timestamp(log) ==
    Items(SortByKey([i \in 1..Len(log) |->
        [key |-> sort_timestamp_trace(log[i])[1][TimestampKey],
         item |-> sort_timestamp_trace(log[i])]]))

---------------------------------------------------------------------------
(* Label grouping: group_remaining_time                                    *)

\* a slip: "elif i == len(ct) - 1" without "and not added"
GroupSequences_NoAddedFlag(vals, max_len_trace) ==
    LET n == Len(vals)
        truncated == [i \in 1..max_len_trace |-> vals[i]]
        padded == [i \in 1..Max(n, max_len_trace) |-> IF i <= n THEN vals[i] ELSE vals[n]]
    IN  IF n = 0 THEN <<>>
        ELSE IF max_len_trace >= 1 /\ n = max_len_trace THEN <<truncated>>
        ELSE IF max_len_trace >= 1 /\ n > max_len_trace THEN <<truncated, padded>>
        ELSE <<padded>>

\* lines 141-152, one case: the sequences appended to rem_time_grouped while
\* walking a group whose values are vals.  At i = max_len_trace - 1 a copy of
\* the first max_len_trace values is appended; otherwise at the group's last
\* index, if nothing was appended, the values padded with their last up to
\* max_len_trace (not padded at all when max_len_trace <= len).
GroupSequences(vals, max_len_trace) ==
    LET n == Len(vals)
        truncated == [i \in 1..max_len_trace |-> vals[i]]
        padded == [i \in 1..Max(n, max_len_trace) |-> IF i <= n THEN vals[i] ELSE vals[n]]
    IN  IF n = 0 THEN <<>>
        ELSE IF max_len_trace >= 1 /\ n >= max_len_trace THEN <<truncated>>
        ELSE <<padded>>

\* the length of the groups before group g: where the running index j stands
RECURSIVE GroupStart(_, _)
GroupStart(change_indexes, g) ==
    IF g <= 1 THEN 0 ELSE GroupStart(change_indexes, g - 1) + Len(change_indexes[g - 1])

\* lines 138-154; remaining_time[j] past the end of the list raises IndexError
group_remaining_time(change_indexes, remaining_time, max_len_trace) ==
    IF GroupStart(change_indexes, Len(change_indexes) + 1) > Len(remaining_time)
    THEN Raise("IndexError")
    ELSE Ok(Concat([g \in 1..Len(change_indexes) |->
            GroupSequences(
                [i \in 1..Len(change_indexes[g]) |->
                    remaining_time[GroupStart(change_indexes, g) + i]],
                max_len_trace)]))

---------------------------------------------------------------------------
(* Fixed-point arithmetic: a float x is the integer nearest to x * Scale   *)

Scale == 10 ^ 4

\* a / b rounded to the nearest integer (a >= 0, b > 0)
RoundDiv(a, b) == (2 * a + b) \div (2 * b)

\* sum over k of term_k / (2k + 1), term_{k+1} = term_k * z2
RECURSIVE AtanhSeries(_, _, _)
AtanhSeries(term, k, z2) ==
    IF term = 0 THEN 0
    ELSE RoundDiv(term, 2 * k + 1) + AtanhSeries((term * z2) \div Scale, k + 1, z2)

\* ln(x) for an integer x >= 1, as 2 * atanh((x - 1) / (x + 1)); LnFix(1) = 0
LnFix(x) ==
    LET z == RoundDiv((x - 1) * Scale, x + 1)
    IN  2 * AtanhSeries(z, 0, RoundDiv(z * z, Scale))

\* math.log(x) of the float x = 1.0 + an integer: ValueError ("math domain
\* error") unless x > 0
MathLog(x) == IF x <= 0 THEN Raise("ValueError") ELSE Ok(LnFix(x))

\* sum over n of a^n / n!
RECURSIVE ExpSeries(_, _, _)
ExpSeries(term, n, a) ==
    IF term = 0 THEN 0
    ELSE term + ExpSeries(RoundDiv(term * a, (n + 1) * Scale), n + 1, a)

\* math.exp(a) for a fixed-point a >= 0
ExpFix(a) == ExpSeries(Scale, 0, a)

---------------------------------------------------------------------------
(* Label normalization: normalize_remaining_time, reconstruct_value        *)

\* line 172
InitialMaxValue == -10000000

RECURSIVE MaxOfList(_)
MaxOfList(lst) ==
    IF Len(lst) = 1 THEN lst[1] ELSE Max(Head(lst), MaxOfList(Tail(lst)))

\* lines 172-175: the maximum over all lists, from InitialMaxValue; max() of
\* an empty list raises ValueError
RECURSIVE MaxValue(_)
MaxValue(rem_time_grouped) ==
    IF Len(rem_time_grouped) = 0 THEN Ok(InitialMaxValue)
    ELSE IF Len(Head(rem_time_grouped)) = 0 THEN Raise("ValueError")
    ELSE LET rest == MaxValue(Tail(rem_time_grouped))
         IN  IF rest.ok THEN Ok(Max(MaxOfList(Head(rem_time_grouped)), rest.val))
             ELSE rest

\* line 180: -1.0 + 2.0 * (math.log(val + 1.0) / log_max_value); the float
\* division by 0.0 raises ZeroDivisionError
NormalizedValue(val, log_max_value) ==
    IF ~MathLog(val + 1).ok THEN MathLog(val + 1)
    ELSE IF log_max_value = 0 THEN Raise("ZeroDivisionError")
    ELSE Ok(2 * RoundDiv(MathLog(val + 1).val * Scale, log_max_value) - Scale)

\* lines 171-181: (ret, log_max_value)
normalize_remaining_time(rem_time_grouped) ==
    LET max_value == MaxValue(rem_time_grouped)
        log_max_value == MathLog(1 + max_value.val)
        normalized ==
            Collect([i \in 1..Len(rem_time_grouped) |->
                Collect([j \in 1..Len(rem_time_grouped[i]) |->
                    NormalizedValue(rem_time_grouped[i][j], log_max_value.val)])])
    IN  IF ~max_value.ok THEN max_value
        ELSE IF ~log_max_value.ok THEN log_max_value
        ELSE IF ~normalized.ok THEN normalized
        ELSE Ok([normalized |-> normalized.val, log_max_value |-> log_max_value.val])

\* lines 200-202: y clamped to >= -1, then exp((y + 1.0) / 2.0 * log_max_value) - 1
reconstruct_value(y, log_max_value) ==
    ExpFix(RoundDiv((Max(y, -Scale) + Scale) * log_max_value, 2 * Scale)) - Scale

---------------------------------------------------------------------------
(* Elastic-Net Adapter: train                                              *)

\* elasticnet.train lines 119-124 (business_hours off): the label of one trace
\* of the expanded log
PrefixLabel(trace) ==
    IF Len(trace) > 0 THEN Last(trace)[TimestampKey] - trace[1][TimestampKey]
    ELSE 0

\* elasticnet.train lines 84-130 without y_orig: the bundle; the feature matrix
\* and the fitted regressor are the collaborators' and are left out
elasticnet_train(log) ==
    LET sorted == sort_timestamp(log)
        ext_log == ExtLog(sorted)
    IN  [variant |-> "elasticnet",
         remaining_time |-> [i \in 1..Len(ext_log) |-> PrefixLabel(ext_log[i])]]

---------------------------------------------------------------------------
(* Sequence-Model Adapter: train, test                                     *)

\* line 266: max([len(trace) for trace in log]) of a non-empty log
RECURSIVE MaxLenTrace(_)
MaxLenTrace(log) ==
    IF Len(log) = 1 THEN Len(log[1]) ELSE Max(Len(Head(log)), MaxLenTrace(Tail(log)))

\* line 286: X.shape[2] of np.array(X); an empty X has shape (0,) and
\* shape[2] raises IndexError
Shape2(X) == IF Len(X) = 0 THEN Raise("IndexError") ELSE Ok(Len(X[1][1]))

\* keras_rnn.train lines 259-298 without y_orig; feature_names is what the
\* tabular representation builder returned for the log.  The fitted network is
\* kept as its output width, the in_out_neurons of the final Dense layer.
keras_rnn_train(log, feature_names) ==
    LET max_len_trace == MaxLenTrace(log)
        y_orig == get_remaining_time_from_log(log, max_len_trace)
        y == normalize_remaining_time(y_orig.val)
        X == get_X_from_log(log, feature_names, max_len_trace)
        in_out_neurons == Shape2(X.val)
    IN  IF ~y_orig.ok THEN y_orig
        ELSE IF ~y.ok THEN y
        ELSE IF ~X.ok THEN X
        ELSE IF ~in_out_neurons.ok THEN in_out_neurons
        ELSE Ok([variant |-> "keras_rnn",
                 feature_names |-> feature_names,
                 regr |-> [in_out_neurons |-> in_out_neurons.val],
                 max_len_trace |-> max_len_trace,
                 log_max_value |-> y.val.log_max_value])

\* outputs a fitted network may give, as fixed-point values: below the
\* normalized range, inside it and at its upper end
OutVals == <<-2 * Scale, -(Scale \div 2), 0, Scale>>

\* regr.predict(X): one row per tensor of X, each in_out_neurons wide; the
\* values are the network's, any of these
PredictOutputs(regr, X) ==
    {[r \in 1..Len(X) |-> [j \in 1..regr.in_out_neurons |->
        OutVals[((w + r + j) % Len(OutVals)) + 1]]] : w \in 1..Len(OutVals)}

\* lines 325-328: a log is taken as it is, anything else is wrapped
AsLog(obj) == IF obj.is_event_log THEN obj.log ELSE <<obj.trace>>

\* lines 332, 336: the (0-based) index read in a trace's output row
ReadIndex(trace) == Len(trace) - 1

\* y[index][k] for a 0-based k >= 0; past the row's end numpy raises IndexError
ReadOutput(row, k) == IF k + 1 > Len(row) THEN Raise("IndexError") ELSE Ok(row[k + 1])

\* lines 332, 336: the prediction for the trace at (1-based) index
Prediction(model_, log, y, index) ==
    LET out == ReadOutput(y[index], ReadIndex(log[index]))
    IN  IF out.ok THEN Ok(reconstruct_value(out.val, model_.log_max_value)) ELSE out

\* lines 331-337, given the outputs y of regr.predict
keras_rnn_test_after_predict(model_, log, y) ==
    IF Len(log) = 1 THEN Prediction(model_, log, y, 1)
    ELSE Collect([index \in 1..Len(log) |-> Prediction(model_, log, y, index)])

---------------------------------------------------------------------------
(* Actions                                                                 *)

Idle == call.op = "init"

Init ==
    /\ call = [op |-> "init"]
    /\ ret = Ok(<<>>)
    /\ model = [variant |-> "untrained"]

GetRemainingTimeFromLog ==
    /\ Idle
    /\ \E log \in Logs, m \in LenParams :
        /\ call' = [op |-> "keras_rnn.get_remaining_time_from_log",
                    log |-> log, max_len_trace |-> m]
        /\ ret' = get_remaining_time_from_log(log, m)
    /\ UNCHANGED model

ElasticnetGetRemainingTimeFromLog ==
    /\ Idle
    /\ \E log \in Logs, m \in LenParams :
        /\ call' = [op |-> "elasticnet.get_remaining_time_from_log",
                    log |-> log, max_len_trace |-> m]
        /\ ret' = elasticnet_get_remaining_time_from_log(log, m)
    /\ UNCHANGED model

GetTraceRepRnn ==
    /\ Idle
    /\ \E trace \in Traces, f \in 1..Len(FeatureLists), m \in LenParams :
        /\ call' = [op |-> "get_trace_rep_rnn", trace |-> trace,
                    feature_names |-> FeatureLists[f], max_len_trace |-> m]
        /\ ret' = get_trace_rep_rnn(trace, Dictionary(FeatureLists[f]), m)
    /\ UNCHANGED model

GetLogRepRnn ==
    /\ Idle
    /\ \E log \in Logs, f \in 1..Len(FeatureLists), m \in LenParams :
        /\ call' = [op |-> "get_log_rep_rnn", log |-> log,
                    feature_names |-> FeatureLists[f], max_len_trace |-> m]
        /\ ret' = get_log_rep_rnn(log, Dictionary(FeatureLists[f]), m)
    /\ UNCHANGED model

\* group_remaining_time on the change indexes of an expanded log and the flat
\* list of one value per expanded entry
GroupRemainingTime ==
    /\ Idle
    /\ \E log \in NonEmptyLogs, m \in LenParams :
        LET ci == ChangeIndexes(log)
            rt == [i \in 1..Len(ExtLog(log)) |-> PrefixLabel(ExtLog(log)[i])]
        IN  /\ call' = [op |-> "group_remaining_time", change_indexes |-> ci,
                        remaining_time |-> rt, max_len_trace |-> m]
            /\ ret' = group_remaining_time(ci, rt, m)
    /\ UNCHANGED model

\* normalize_remaining_time on the labels get_remaining_time_from_log gives
\* for a log (as train calls it)
NormalizeRemainingTime ==
    /\ Idle
    /\ \E log \in NonEmptyLogs, m \in 1..MaxLenParam :
        LET y_orig == get_remaining_time_from_log(log, m).val
        IN  /\ call' = [op |-> "normalize_remaining_time", rem_time_grouped |-> y_orig]
            /\ ret' = normalize_remaining_time(y_orig)
    /\ UNCHANGED model

\* reconstruct_value on one normalized value and the log_max_value returned
\* with it; raw is the value that was normalized
ReconstructValue ==
    /\ call.op = "normalize_remaining_time"
    /\ ret.ok
    /\ \E i \in 1..Len(ret.val.normalized) : \E j \in 1..Len(ret.val.normalized[i]) :
        /\ call' = [op |-> "reconstruct_value", y |-> ret.val.normalized[i][j],
                    log_max_value |-> ret.val.log_max_value,
                    raw |-> call.rem_time_grouped[i][j]]
        /\ ret' = Ok(reconstruct_value(ret.val.normalized[i][j], ret.val.log_max_value))
    /\ UNCHANGED model

ElasticnetTrain ==
    /\ Idle
    /\ \E log \in NonEmptyLogs :
        /\ call' = [op |-> "elasticnet.train", log |-> log]
        /\ ret' = Ok(elasticnet_train(log))
        /\ model' = elasticnet_train(log)

\* keras_rnn.train; the bundle returned is the one test is later given
KerasRnnTrain ==
    /\ Idle
    /\ \E log \in Logs, f \in 1..Len(FeatureLists) :
        LET trained == keras_rnn_train(log, FeatureLists[f])
        IN  /\ call' = [op |-> "keras_rnn.train"]
            /\ ret' = trained
            /\ model' = IF trained.ok THEN trained.val ELSE model

\* the objects test is given: a single trace, or an event log
TestObjects ==
    {[is_event_log |-> FALSE, trace |-> t] : t \in TestTraces} \cup
    {[is_event_log |-> TRUE, log |-> l] : l \in TestLogs}

\* keras_rnn.test lines 319-337 on the trained bundle
KerasRnnTest ==
    /\ call.op = "keras_rnn.train"
    /\ model.variant = "keras_rnn"
    /\ \E obj \in TestObjects :
        LET log == AsLog(obj)
            X == get_X_from_log(log, model.feature_names, model.max_len_trace)
        IN  IF X.ok
            THEN \E y \in PredictOutputs(model.regr, X.val) :
                    /\ call' = [op |-> "keras_rnn.test", obj |-> obj, y |-> y]
                    /\ ret' = keras_rnn_test_after_predict(model, log, y)
            ELSE /\ call' = [op |-> "keras_rnn.test", obj |-> obj, y |-> <<>>]
                 /\ ret' = X
    /\ UNCHANGED model

Next ==
    \/ KerasRnnTrain
    \/ KerasRnnTest
    \/ NormalizeRemainingTime
    \/ ReconstructValue
    \/ GroupRemainingTime
    \/ ElasticnetTrain
    \/ GetRemainingTimeFromLog
    \/ ElasticnetGetRemainingTimeFromLog
    \/ GetTraceRepRnn
    \/ GetLogRepRnn

Spec == Init /\ [][Next]_vars

---------------------------------------------------------------------------
(* Claims                                                                  *)

RemainingTimeOps ==
    {"keras_rnn.get_remaining_time_from_log", "elasticnet.get_remaining_time_from_log"}

\* the call was get_remaining_time_from_log on a log of non-empty traces
RemainingTimeCalled ==
    /\ call.op \in RemainingTimeOps
    /\ \A i \in 1..Len(call.log) : Len(call.log[i]) > 0

\* C1: get_remaining_time_from_log (business_hours off) returns, for every
\* non-empty trace with timestamps t_0..t_{n-1}, a list of length exactly
\* max_len_trace whose entry i < min(n, max_len_trace) is t_{n-1} - t_i and whose
\* later entries repeat the trace's own last computed entry.
C1_RemainingTimePadded ==
    RemainingTimeCalled =>
        /\ ret.ok
        /\ Len(ret.val) = Len(call.log)
        /\ \A i \in 1..Len(call.log) :
            LET t == call.log[i]
                y == ret.val[i]
                k == Min(Len(t), call.max_len_trace)
            IN  /\ Len(y) = call.max_len_trace
                /\ \A j \in 1..k : y[j] = t[Len(t)][TimestampKey] - t[j][TimestampKey]
                /\ \A j \in (k + 1)..call.max_len_trace : y[j] = y[k]

\* the trace with timestamps 0 s, 5 s, 12 s padded to five entries, beside a
\* two-event trace padded likewise
C1_Witness ==
    /\ call.op = "keras_rnn.get_remaining_time_from_log"
    /\ call.max_len_trace = 5
    /\ ret.ok
    /\ Len(ret.val) = 2
    /\ ret.val[1] = <<12, 7, 0, 0, 0>>
    /\ ret.val[2] = <<7, 0, 0, 0, 0>>

\* C8 as claimed: for every non-empty trace and every max_len_trace >= 1, the
\* entry at index min(len(trace), max_len_trace) - 1 is 0.
C8_LastKeptIsZero ==
    (RemainingTimeCalled /\ call.max_len_trace >= 1) =>
        /\ ret.ok
        /\ \A i \in 1..Len(call.log) :
            ret.val[i][Min(Len(call.log[i]), call.max_len_trace)] = 0

\* C8 as amended: when max_len_trace >= len(trace) the entry at index
\* len(trace) - 1 is 0; when the trace is truncated the entry at index
\* max_len_trace - 1 is t_{n-1} - t_{max_len_trace-1}, the time still remaining
\* after the last event kept.
C8_LastKeptAmended ==
    (RemainingTimeCalled /\ call.max_len_trace >= 1) =>
        /\ ret.ok
        /\ \A i \in 1..Len(call.log) :
            LET t == call.log[i]
                m == call.max_len_trace
            IN  IF m >= Len(t) THEN ret.val[i][Len(t)] = 0
                ELSE ret.val[i][m] = t[Len(t)][TimestampKey] - t[m][TimestampKey]

\* an untruncated trace whose earlier entries are not 0, and a truncated one
C8_Witness ==
    /\ call.op = "elasticnet.get_remaining_time_from_log"
    /\ call.max_len_trace = 1
    /\ ret.ok
    /\ Len(ret.val) = 2
    /\ Len(call.log[1]) = 1
    /\ Len(call.log[2]) = 2
    /\ ret.val[2] = <<12>>

\* the call was get_trace_rep_rnn on a non-empty trace with max_len >= 1
TraceRepCalled ==
    /\ call.op = "get_trace_rep_rnn"
    /\ Len(call.trace) > 0
    /\ call.max_len_trace >= 1

\* C3 as claimed: for a non-empty trace and max_len >= 1 the value returned by
\* get_trace_rep_rnn has first dimension max_len and second dimension the
\* feature-dictionary size (timestep-major).
C3_TimestepMajor ==
    TraceRepCalled =>
        /\ ret.ok
        /\ Len(ret.val) = call.max_len_trace
        /\ \A r \in 1..Len(ret.val) : Len(ret.val[r]) = Len(call.feature_names)

\* C3 as amended: the value returned is feature-major; its first dimension is
\* the feature-dictionary size and each of its rows has length max_len, whether
\* the trace is shorter than, as long as, or longer than max_len.
C3_FeatureMajor ==
    TraceRepCalled =>
        /\ ret.ok
        /\ Len(ret.val) = Len(call.feature_names)
        /\ \A c \in 1..Len(ret.val) : Len(ret.val[c]) = call.max_len_trace

\* a two-event trace padded to three timesteps over eight features
C3_Witness ==
    /\ TraceRepCalled
    /\ Len(call.trace) = 2
    /\ call.max_len_trace = 3
    /\ ret.ok
    /\ Len(ret.val) = 8
    /\ Len(ret.val[1]) = 3

\* feature name d is event:<attr>@<value> for an attribute of the event
IsEventDescriptor(d, event) ==
    \E a \in DOMAIN event : d = "event:" \o a \o "@" \o Str(a, event[a])

\* feature name d is succession:<attr>@<v1>#<v2> with attr valued v1 on the
\* event and v2 on the next one
IsSuccessionDescriptor(d, event, next_event) ==
    \E a \in DOMAIN event :
        /\ a \in DOMAIN next_event
        /\ d = "succession:" \o a \o "@" \o Str(a, event[a]) \o "#" \o Str(a, next_event[a])

\* C10: the feature vector of event i < min(len(trace), max_len) is binary, with
\* a 1 at column c exactly when feature c is an event descriptor of event i or,
\* event i not being the last of the trace, a succession descriptor of events i
\* and i+1; no column is added, and the padding timesteps are all 0.  (Event
\* i's vector is read from the returned value, ret.val[c][i].)
C10_BinaryPresence ==
    TraceRepCalled =>
        /\ ret.ok
        /\ Len(ret.val) = Len(call.feature_names)
        /\ \A c \in 1..Len(ret.val) : \A i \in 1..Len(ret.val[c]) :
            LET t == call.trace
                d == call.feature_names[c]
            IN  IF i <= Min(Len(t), call.max_len_trace)
                THEN /\ ret.val[c][i] \in {0, 1}
                     /\ ret.val[c][i] = 1 <=>
                            \/ IsEventDescriptor(d, t[i])
                            \/ /\ i < Len(t)
                               /\ IsSuccessionDescriptor(d, t[i], t[i + 1])
                ELSE ret.val[c][i] = 0

\* a truncated trace whose last kept event still carries its succession
\* feature (column 3, concept:name a#b), with the unseen descriptor's column 0
C10_Witness ==
    /\ TraceRepCalled
    /\ Len(call.trace) = 2
    /\ call.max_len_trace = 1
    /\ ret.ok
    /\ Len(ret.val) = 8
    /\ ret.val[1] = <<1>>
    /\ ret.val[3] = <<1>>
    /\ ret.val[8] = <<0>>

\* the traces of the log that have a non-empty representation
RECURSIVE KeptTraces(_, _, _)
KeptTraces(log, feature_names, max_len_trace) ==
    IF Len(log) = 0 THEN <<>>
    ELSE IF Len(Head(log)) > 0 /\ Len(feature_names) > 0 /\ max_len_trace > 0
         THEN <<Head(log)>> \o KeptTraces(Tail(log), feature_names, max_len_trace)
         ELSE KeptTraces(Tail(log), feature_names, max_len_trace)

\* C7: get_log_rep_rnn never raises; for any log, one with an empty trace
\* included, the traces with an empty representation are dropped and every other
\* trace contributes exactly one tensor, in input order.
C7_NeverRaises ==
    call.op = "get_log_rep_rnn" =>
        /\ ret.ok
        /\ LET kept == KeptTraces(call.log, call.feature_names, call.max_len_trace)
           IN  /\ Len(ret.val) = Len(kept)
               /\ \A i \in 1..Len(kept) :
                    ret.val[i] = get_trace_rep_rnn(kept[i],
                        Dictionary(call.feature_names), call.max_len_trace).val

\* C4: group_remaining_time returns exactly one sequence per change-index
\* group, in group order, each of length exactly max_len_trace; its first
\* min(len(group), max_len_trace) entries are the values of the flat list at the
\* group's own indexes and the padding repeats the sequence's own last real
\* value (non-empty groups, max_len_trace >= 1).
C4_GroupedPerCase ==
    (call.op = "group_remaining_time" /\ call.max_len_trace >= 1) =>
        /\ ret.ok
        /\ Len(ret.val) = Len(call.change_indexes)
        /\ \A g \in 1..Len(call.change_indexes) :
            LET ct == call.change_indexes[g]
                k == Min(Len(ct), call.max_len_trace)
            IN  /\ Len(ret.val[g]) = call.max_len_trace
                /\ \A i \in 1..k : ret.val[g][i] = call.remaining_time[ct[i] + 1]
                /\ \A i \in (k + 1)..call.max_len_trace : ret.val[g][i] = ret.val[g][k]

\* a group shorter than max_len_trace padded with its own last value, 5,
\* before a group whose values end in 12
C4_Witness ==
    /\ call.op = "group_remaining_time"
    /\ call.max_len_trace = 3
    /\ call.remaining_time = <<0, 5, 0, 12>>
    /\ ret.ok
    /\ ret.val = << <<0, 5, 5>>, <<0, 12, 12>> >>

\* the remaining time of each prefix of each trace of a log, in expanded-log
\* order: for the prefix of length k of t_0..t_{n-1}, t_{n-1} - t_{k-1}
PrefixRemainingTimes(log) ==
    Concat([i \in 1..Len(log) |->
        [k \in 1..Len(log[i]) |->
            log[i][Len(log[i])][TimestampKey] - log[i][k][TimestampKey]]])

\* C6: elasticnet.train without y_orig (business_hours off) fits one label per
\* prefix of the expanded log, in expanded-log order, and the label of the
\* prefix of length k of a source trace t_0..t_{n-1} is t_{n-1} - t_{k-1}.
C6_PrefixRemainingTime ==
    call.op = "elasticnet.train" =>
        /\ ret.ok
        /\ ret.val.remaining_time = PrefixRemainingTimes(sort_timestamp(call.log))

\* the positions of a corpus, and its global maximum
Positions(g) == {<<i, j>> \in (1..Len(g)) \X (1..MaxLenParam) : j <= Len(g[i])}
GlobalMax(g) ==
    CHOOSE v \in {g[p[1]][p[2]] : p \in Positions(g)} :
        \A p \in Positions(g) : g[p[1]][p[2]] <= v

\* normalize_remaining_time was called on a non-empty corpus of non-negative
\* values
NormalizeCalled ==
    /\ call.op = "normalize_remaining_time"
    /\ \A p \in Positions(call.rem_time_grouped) :
        call.rem_time_grouped[p[1]][p[2]] >= 0

\* C9: for every non-empty corpus of non-negative values (an all-zero corpus
\* included) normalize_remaining_time returns normally with log_max_value =
\* log(1 + max_v), max_v the global maximum, and every normalized value in
\* [-1, 1], 0 mapped to -1 and max_v to 1.
C9_NormalizedRange ==
    NormalizeCalled =>
        /\ ret.ok
        /\ ret.val.log_max_value = LnFix(1 + GlobalMax(call.rem_time_grouped))
        /\ \A p \in Positions(call.rem_time_grouped) :
            LET v == call.rem_time_grouped[p[1]][p[2]]
                n == ret.val.normalized[p[1]][p[2]]
            IN  /\ -Scale <= n /\ n <= Scale
                /\ v = 0 => n = -Scale
                /\ v = GlobalMax(call.rem_time_grouped) => n = Scale

\* what holds of normalize_remaining_time: C9 for a corpus whose maximum is
\* positive
NormalizedRangeWhenPositive ==
    (NormalizeCalled /\ GlobalMax(call.rem_time_grouped) > 0) => C9_NormalizedRange

\* round-trip tolerance: 0.02 s
Tolerance == Scale \div 50

Abs(x) == IF x < 0 THEN -x ELSE x

\* C2: round-trip law: for every corpus and every value v in [0, max_v] of it,
\* normalize_remaining_time gives a normalized image n and a log_max_value
\* with reconstruct_value(n, log_max_value) = v up to tolerance.
C2_RoundTrip ==
    /\ NormalizeCalled => ret.ok
    /\ (call.op = "reconstruct_value" /\ call.raw >= 0) =>
            Abs(ret.val - call.raw * Scale) <= Tolerance

\* what holds of the round trip: wherever normalize_remaining_time returned,
\* reconstruct_value inverts it
RoundTripWhenNormalized ==
    (call.op = "reconstruct_value" /\ call.raw >= 0) =>
        Abs(ret.val - call.raw * Scale) <= Tolerance

\* a value strictly inside (0, max_v) taken through the round trip
RoundTripReached ==
    /\ call.op = "reconstruct_value"
    /\ call.raw = 7
    /\ call.y > -Scale /\ call.y < Scale

\* keras_rnn.test was called with traces that all have events
TestCalled ==
    /\ call.op = "keras_rnn.test"
    /\ \A i \in 1..Len(AsLog(call.obj)) : Len(AsLog(call.obj)[i]) > 0

\* the model's output for trace i at index len(trace) - 1, reconstructed
OwnLengthPrediction(i) ==
    reconstruct_value(call.y[i][Len(AsLog(call.obj)[i])], model.log_max_value)

\* C5: keras_rnn.test returns, for every trace of the input in input order (a
\* bare scalar for a single trace or a singleton log, otherwise a list),
\* reconstruct_value of the model's output for that trace at index
\* len(trace) - 1, not at max_len_trace - 1.
C5_ReadsOwnLength ==
    TestCalled =>
        /\ ret.ok
        /\ LET log == AsLog(call.obj)
           IN  IF Len(log) = 1 THEN ret.val = OwnLengthPrediction(1)
               ELSE /\ Len(ret.val) = Len(log)
                    /\ \A i \in 1..Len(log) : ret.val[i] = OwnLengthPrediction(i)

\* what holds of test: C5 whenever no trace is longer than max_len_trace
ReadsOwnLengthWhenInRange ==
    (TestCalled /\ \A i \in 1..Len(AsLog(call.obj)) :
                    Len(AsLog(call.obj)[i]) <= model.max_len_trace)
        => C5_ReadsOwnLength

\* a log of a one-event and a two-event trace under max_len_trace = 2: the
\* two predictions are read at indexes 0 and 1 and differ
ReadsOwnLengthReached ==
    /\ TestCalled
    /\ call.obj.is_event_log
    /\ Len(call.obj.log) = 2
    /\ Len(call.obj.log[1]) = 1
    /\ Len(call.obj.log[2]) = 2
    /\ model.max_len_trace = 2
    /\ ret.ok
    /\ ret.val[1] # ret.val[2]
    /\ call.y[1][1] # call.y[1][2]

\* the width of the output rows the trained network gives: the value
\* X.shape[2] that train passed to the final Dense layer
OutputWidth == model.regr.in_out_neurons

\* C11: in keras_rnn.test, for every trace of the input of length >= 1, also
\* one longer than the bundle's max_len_trace, the index len(trace) - 1 lies
\* within the output row, whose width is the X.shape[2] train used for the
\* Dense layer; a prediction is returned for every trace and no read is out
\* of range.
C11_IndexInBounds ==
    TestCalled =>
        /\ \A i \in 1..Len(AsLog(call.obj)) :
            /\ Len(call.y[i]) = OutputWidth
            /\ ReadIndex(AsLog(call.obj)[i]) < OutputWidth
        /\ ret.ok

\* what holds of train: the Dense layer is as wide as max_len_trace, the last
\* axis of the transposed tensors
OutputWidthIsMaxLenTrace ==
    model.variant = "keras_rnn" => OutputWidth = model.max_len_trace

\* what holds of test: the read is out of range, and IndexError is raised,
\* exactly when some trace is longer than max_len_trace
OutOfRangeWhenLonger ==
    TestCalled =>
        (ret.ok <=> \A i \in 1..Len(AsLog(call.obj)) :
                        Len(AsLog(call.obj)[i]) <= model.max_len_trace)

\* a single trace of three events given to a bundle trained with
\* max_len_trace = 2: index 2 is read in a row of width 2
OutOfRangeReached ==
    /\ TestCalled
    /\ ~call.obj.is_event_log
    /\ Len(call.obj.trace) = 3
    /\ model.max_len_trace = 2
    /\ Len(call.y[1]) = 2
    /\ ~ret.ok
    /\ ret.exc = "IndexError"

=============================================================================
